---- MODULE Spec2Model ----
(***************************************************************************)
(* Model of the agent's configuration resolution: config.load with its     *)
(* flag parsing, document loading (LoadFile / LoadBytes / UnmarshalYAML,   *)
(* getenv) and Config.ApplyDefaults.                                       *)
(*                                                                         *)
(* Text is a sequence of one-character strings.  An error is a sequence of *)
(* message fragments, the empty sequence being the nil error; wrapping an  *)
(* error with fmt.Errorf("prefix: %w") puts the prefix in front.           *)
(***************************************************************************)
EXTENDS Integers, Sequences, FiniteSets, TLC

VARIABLES
    pc,        \* the last stage of load that completed
    args,      \* the invocation arguments handed to load
    env,       \* the process environment read by os.Getenv
    fv,        \* load's flag-bound locals: file, printVersion, configExpandEnv
    cfg,       \* load's working tree (the local cfg)
    doc,       \* the document the loader read
    buf,       \* what LoadBytes handed to the decoder
    vlogs,     \* what Config.ApplyDefaults handed to Tempo.Validate
    pre,       \* the tree as it was handed to LoadBytes
    global,    \* the package variable DefaultConfig
    first,     \* what an earlier call of load read and returned
    mh,        \* the blackbox exporter's MetricsHandler: its loop and result
    entry,     \* the tree as it was handed to Config.ApplyDefaults
    ret,       \* what load returned
    trace      \* the stages run so far, in order

vars ==
    <<pc, args, env, fv, cfg, doc, buf, vlogs, pre, global, first, mh, entry,
      ret, trace>>

----------------------------------------------------------------------------
(* Bounds *)

MaxNameLen == 2      \* longest placeholder name
MaxTokens  == 2      \* most tokens in a document value
MaxTempo   == 1      \* most trace instances in a document
MaxLogs    == 1      \* most entries in a logs section
MaxKeys    == 2      \* most further keys in the metrics section of a document

----------------------------------------------------------------------------
(* Text helpers *)

NameChars == {"1", "A"}
IsDigit(ch) == ch \in {"0", "1", "2", "3", "4", "5", "6", "7", "8", "9"}

SeqsUpTo(S, n) == UNION {[1..k -> S] : k \in 0..n}
NonEmptySeqsUpTo(S, n) == UNION {[1..k -> S] : k \in 1..n}

RECURSIVE Concat(_)
Concat(ss) == IF ss = <<>> THEN <<>> ELSE Head(ss) \o Concat(Tail(ss))

Names == NonEmptySeqsUpTo(NameChars, MaxNameLen)

\* os.Getenv: the value of the variable, empty when it is unset.
Getenv(name) == env[name]

\* The loop of getenv: the scan stops at the first rune that is not a digit.
RECURSIVE numericName(_, _)
numericName(name, i) ==
    IF i > Len(name) THEN TRUE
    ELSE IF ~IsDigit(name[i]) THEN FALSE
    ELSE numericName(name, i + 1)

getenv_NoBraces(name) ==
    IF numericName(name, 1) THEN name ELSE Getenv(name)

getenv(name) ==
    IF numericName(name, 1)
    THEN <<"$", "{">> \o name \o <<"}">>
    ELSE Getenv(name)

\* The index of the first "}" of s at or after i, 0 when there is none.
RECURSIVE closing(_, _)
closing(s, i) ==
    IF i > Len(s) THEN 0
    ELSE IF s[i] = "}" THEN i
    ELSE closing(s, i + 1)

\* envsubst.Eval(s, mapping) with mapping = getenv: every ${name} of s is
\* replaced by mapping(name) in one pass; an unterminated or empty ${ is an
\* error and no text is returned.
RECURSIVE Eval(_, _)
Eval(s, i) ==
    IF i > Len(s) THEN [ok |-> TRUE, text |-> <<>>]
    ELSE IF s[i] = "$" /\ i < Len(s) /\ s[i + 1] = "{"
    THEN LET j == closing(s, i + 2) IN
         IF j = 0 \/ j = i + 2 THEN [ok |-> FALSE, text |-> <<>>]
         ELSE LET rest == Eval(s, j + 1) IN
              IF rest.ok
              THEN [ok |-> TRUE,
                    text |-> getenv(SubSeq(s, i + 2, j - 1)) \o rest.text]
              ELSE rest
    ELSE LET rest == Eval(s, i + 1) IN
         IF rest.ok THEN [ok |-> TRUE, text |-> <<s[i]>> \o rest.text]
         ELSE rest

----------------------------------------------------------------------------
(* The configuration tree *)

NilLogs == [nil |-> TRUE, Configs |-> <<>>]
LogsOf(names) == [nil |-> FALSE, Configs |-> names]

\* DefaultConfig: the metrics and integrations sections hold their
\* subsystem's defaults, everything else the zero value.
DefaultConfig ==
    [Server |-> [HTTPListenPort |-> 0,
                 HTTPListenAddress |-> "",
                 GRPCListenPort |-> 0,
                 MetricsNamespace |-> "",
                 RegisterInstrumentation |-> FALSE],
     Prometheus |-> [WALDir |-> <<>>,
                     Global |-> [ScrapeInterval |-> "1m", ScrapeTimeout |-> "10s",
                                 RemoteWrite |-> <<>>],
                     ServiceConfig |-> [Lifecycler |-> [ListenPort |-> 0]],
                     Configs |-> "valid"],
     Integrations |-> [PrometheusRemoteWrite |-> <<>>,
                       ListenPort |-> 0,
                       ListenHost |-> "",
                       Integrations |-> "valid"],
     Tempo |-> [Configs |-> <<>>],
     Logs |-> NilLogs,
     Loki |-> NilLogs,
     UsedDeprecatedLoki |-> FALSE]

\* The defaults the registered flags carry.
FlagDefaults ==
    [WALDir |-> <<>>, HTTPListenPort |-> 80, HTTPListenAddress |-> "",
     GRPCListenPort |-> 9095]

\* Config.RegisterFlags: registering a flag stores its default in the
\* field the flag is bound to.
RegisterFlags(c) ==
    [c EXCEPT !.Server.MetricsNamespace = "agent",
              !.Server.RegisterInstrumentation = TRUE,
              !.Prometheus.WALDir = FlagDefaults.WALDir,
              !.Server.HTTPListenPort = FlagDefaults.HTTPListenPort,
              !.Server.HTTPListenAddress = FlagDefaults.HTTPListenAddress,
              !.Server.GRPCListenPort = FlagDefaults.GRPCListenPort]

\* util.DefaultConfigFromFlags: the defaults inherited from flags, obtained
\* by registering the tree's flags on a throw-away flag set.
DefaultConfigFromFlags(c) == RegisterFlags(c)

----------------------------------------------------------------------------
(* Inputs: invocation arguments, environments, documents *)

Unset(v) == [set |-> FALSE, val |-> v]
Given(v) == [set |-> TRUE, val |-> v]

FlagFiles == {Unset(""), Given(""), Given("agent.yaml")}
FlagTexts == {Unset(<<>>), Given(<<"f">>)}
FlagPorts == {Unset(0), Given(8080)}

\* The arguments: bad says that one of them is not parseable; every other
\* field is a flag that is supplied or not.
ArgSets ==
    [bad : BOOLEAN, version : BOOLEAN, file : FlagFiles,
     expandEnv : BOOLEAN, walDir : FlagTexts, httpPort : FlagPorts]

\* Two environments: nothing set, and every name set to a value of its own.
Envs == {[n \in Names |-> <<>>], [n \in Names |-> <<"v">> \o n]}

\* A document value is written as tokens: literal text, a ${name}
\* placeholder, or a ${name that is never closed.
Lit(s) == [kind |-> "lit", s |-> s]
Var(n) == [kind |-> "var", s |-> n]
Open(n) == [kind |-> "open", s |-> n]

Tokens == {Lit(<<"w">>)} \cup {Var(n) : n \in Names}
TokenSeqs == NonEmptySeqsUpTo(Tokens, MaxTokens)

Render(t) ==
    IF t.kind = "lit" THEN t.s
    ELSE IF t.kind = "var" THEN <<"$", "{">> \o t.s \o <<"}">>
    ELSE <<"$", "{">> \o t.s

RenderAll(ts) == Concat([i \in 1..Len(ts) |-> Render(ts[i])])

LogNames == {"foo", "default"}
LogsSections == {NilLogs} \cup {LogsOf(ns) : ns \in SeqsUpTo(LogNames, MaxLogs)}

TempoNames == <<"default", "second", "third">>
TempoBodies == [Backend : {"stdout", "logs_instance"}, LogsName : LogNames]
TempoConfigs ==
    {[i \in 1..Len(bs) |->
        [Name |-> TempoNames[i], Backend |-> bs[i].Backend,
         LogsName |-> bs[i].LogsName]] : bs \in SeqsUpTo(TempoBodies, MaxTempo)}

\* A document that sets nothing ({}).
BaseDoc ==
    [empty |-> FALSE, malformed |-> FALSE,
     wal_directory |-> Unset(<<>>), http_listen_port |-> Unset(0),
     prometheus_configs |-> "valid", integrations |-> "valid",
     global_remote_write |-> <<>>, integrations_remote_write |-> <<>>,
     loki |-> NilLogs, logs |-> NilLogs, tempo |-> <<>>, keys |-> <<>>,
     http_listen_address |-> Unset(""), grpc_listen_port |-> Unset(0)]

\* The document of zero bytes.
EmptyDoc == [BaseDoc EXCEPT !.empty = TRUE]

Validities == {"valid", "invalid"}

\* Documents that vary the fields a flag can set as well.
DocsMerge ==
    {[BaseDoc EXCEPT !.wal_directory = w, !.http_listen_port = p,
                     !.malformed = m, !.prometheus_configs = pv] :
        w \in {Unset(<<>>), Given(<<Lit(<<"w">>)>>), Given(<<Var(<<"A">>)>>)},
        p \in {Unset(0), Given(9090)},
        m \in BOOLEAN, pv \in Validities}

\* Documents that vary the sections and what refers to them.
DocsSections ==
    {[BaseDoc EXCEPT !.loki = lk, !.logs = lg, !.tempo = t,
                     !.prometheus_configs = v[1], !.integrations = v[2]] :
        lk \in LogsSections, lg \in LogsSections, t \in TempoConfigs,
        v \in Validities \X Validities}

\* Documents that vary the remote-write lists.
DocsCascade ==
    {[BaseDoc EXCEPT !.global_remote_write = rw[1],
                     !.integrations_remote_write = rw[2],
                     !.prometheus_configs = v[1], !.integrations = v[2],
                     !.loki = lk, !.tempo = t] :
        rw \in {<<>>, <<"global">>} \X {<<>>, <<"own">>, <<"own", "other">>},
        v \in Validities \X Validities,
        lk \in {NilLogs, LogsOf(<<"foo">>)},
        t \in {<<>>, <<[Name |-> "default", Backend |-> "logs_instance",
                        LogsName |-> "default"]>>}}

\* Documents that vary the text of a value.
DocsText ==
    {[BaseDoc EXCEPT !.wal_directory = Given(ts)] : ts \in TokenSeqs}
    \cup {[BaseDoc EXCEPT !.wal_directory = Given(<<Open(<<"A">>)>>)]}

\* A further key of the metrics section: the mapping it is written in and
\* its name.  scrape_timeout and external_labels are fields of the global
\* mapping; the metrics section itself has no scrape_timeout.
Key(level, name) == [level |-> level, name |-> name]
KnownKeys == {Key("global", "scrape_timeout"), Key("global", "external_labels")}
WrittenKeys == KnownKeys \cup {Key("prometheus", "scrape_timeout")}

\* Documents that vary the further keys.
DocsStrict ==
    {[BaseDoc EXCEPT !.keys = ks, !.loki = lk] :
        ks \in SeqsUpTo(WrittenKeys, MaxKeys),
        lk \in {NilLogs, LogsOf(<<"foo">>)}}

\* Documents that vary the server's endpoints.
DocsEndpoints ==
    {[BaseDoc EXCEPT !.http_listen_port = p, !.http_listen_address = a,
                     !.grpc_listen_port = g] :
        p \in {Unset(0), Given(9090)},
        a \in {Unset(""), Given("localhost")},
        g \in {Unset(0), Given(9096)}}

Docs ==
    {EmptyDoc} \cup DocsMerge \cup DocsSections \cup DocsCascade \cup DocsText
    \cup DocsStrict \cup DocsEndpoints

----------------------------------------------------------------------------
(* Loading the document *)

NilErr == <<>>
Wrap(prefix, err) == prefix \o err

NoBuf == [decoded |-> FALSE, text |-> <<>>]

Reset_Kept(c) == c

DefaultConfigAfter_Aliased(g, c) == c

\* *c = DefaultConfig copies the value of the package variable g: the
\* decode writes to the tree c and the package variable is as it was.
DefaultConfigAfter(g, c) == g

\* *c = DefaultConfig; util.DefaultConfigFromFlags(c)
Reset(c) == DefaultConfigFromFlags(global)

\* Config.UnmarshalYAML: the tree is reset to DefaultConfig and the flag
\* defaults, then the fields the document sets are written over it.
\* text is the wal_directory value as the decoder sees it.
UnmarshalYAML(d, text, c) ==
    LET c0 == Reset(c)
        c1 == [c0 EXCEPT
                 !.Prometheus.WALDir =
                     IF d.wal_directory.set THEN text ELSE @,
                 !.Server.HTTPListenPort =
                     IF d.http_listen_port.set THEN d.http_listen_port.val ELSE @,
                 !.Server.HTTPListenAddress =
                     IF d.http_listen_address.set
                     THEN d.http_listen_address.val ELSE @,
                 !.Server.GRPCListenPort =
                     IF d.grpc_listen_port.set THEN d.grpc_listen_port.val ELSE @,
                 !.Prometheus.Configs = d.prometheus_configs,
                 !.Prometheus.Global.RemoteWrite = d.global_remote_write,
                 !.Prometheus.Global.ScrapeTimeout =
                     IF \E k \in 1..Len(d.keys) :
                            d.keys[k] = Key("global", "scrape_timeout")
                     THEN "33s" ELSE @,
                 !.Integrations.Integrations = d.integrations,
                 !.Integrations.PrometheusRemoteWrite =
                     d.integrations_remote_write,
                 !.Tempo.Configs = d.tempo,
                 !.Logs = d.logs,
                 !.Loki = d.loki]
    IN  [err |-> IF d.malformed
                 THEN <<"yaml: unmarshal errors">> ELSE NilErr,
         c |-> c1]

\* The strict decoder's check of the keys, in the order they are written:
\* a key that its mapping has no field for, or that was already set.
RECURSIVE StrictErrors(_, _)
StrictErrors(keys, i) ==
    IF i > Len(keys) THEN NilErr
    ELSE IF keys[i] \notin KnownKeys
    THEN <<"yaml: unmarshal errors", ": field ", keys[i].name, " not found">>
    ELSE IF \E k \in 1..(i - 1) : keys[k] = keys[i]
    THEN <<"yaml: unmarshal errors", ": key ", keys[i].name, " already set">>
    ELSE StrictErrors(keys, i + 1)

UnmarshalStrict_Lenient(d, text, c) ==
    IF d.empty THEN [err |-> NilErr, c |-> c]
    ELSE UnmarshalYAML(d, text, c)

\* yaml.UnmarshalStrict: a document of zero bytes has no node to decode and
\* the tree's UnmarshalYAML is not called; otherwise the tree is decoded
\* into and an unknown or repeated key is an error.
UnmarshalStrict(d, text, c) ==
    IF d.empty THEN [err |-> NilErr, c |-> c]
    ELSE LET r == UnmarshalYAML(d, text, c) IN
         [err |-> IF r.err # NilErr THEN r.err ELSE StrictErrors(d.keys, 1),
          c |-> r.c]

\* The raw text of the document's wal_directory value.
Raw(d) == IF d.wal_directory.set THEN RenderAll(d.wal_directory.val) ELSE <<>>

LoadBytes(d, expandEnvVars, c) ==
    LET ev == IF expandEnvVars THEN Eval(Raw(d), 1)
              ELSE [ok |-> TRUE, text |-> Raw(d)]
    IN  IF ~ev.ok
        THEN [err |-> <<"unable to substitute config with environment variables: ",
                        "missing closing brace">>,
              c |-> c, buf |-> NoBuf]
        ELSE LET r == UnmarshalStrict(d, ev.text, c) IN
             [err |-> r.err, c |-> r.c,
              buf |-> [decoded |-> TRUE, text |-> ev.text]]

\* LoadFile: readable says whether ioutil.ReadFile succeeds.
LoadFile(readable, d, expandEnvVars, c) ==
    IF ~readable
    THEN [err |-> <<"error reading config file", ": ", "no such file">>,
          c |-> c, buf |-> NoBuf]
    ELSE LoadBytes(d, expandEnvVars, c)

----------------------------------------------------------------------------
(* Flag parsing *)

\* fs.Parse(args) over the registered flags: an unparseable argument is an
\* error; otherwise every supplied flag is stored in the variable it is
\* bound to and the others are left alone.
Parse(a, f, c) ==
    IF a.bad
    THEN [err |-> <<"flag provided but not defined">>, fv |-> f, c |-> c]
    ELSE [err |-> NilErr,
          fv |-> [file |-> IF a.file.set THEN a.file.val ELSE f.file,
                  printVersion |-> IF a.version THEN TRUE ELSE f.printVersion,
                  configExpandEnv |->
                      IF a.expandEnv THEN TRUE ELSE f.configExpandEnv],
          c |-> [c EXCEPT
                   !.Prometheus.WALDir =
                       IF a.walDir.set THEN a.walDir.val ELSE @,
                   !.Server.HTTPListenPort =
                       IF a.httpPort.set THEN a.httpPort.val ELSE @]]

Reparse_Skipped(a, f, c) == [err |-> NilErr, fv |-> f, c |-> c]

\* The second fs.Parse(args) of load, over the same flag set.
Reparse(a, f, c) == Parse(a, f, c)

\* if err != nil
Failed_Ignored(e) == FALSE

Failed(e) == e # NilErr

VersionRequested_Ignored(f) == FALSE

\* if printVersion
VersionRequested(f) == f.printVersion

\* if file == ""
FileMissing_Unchecked(f) == FALSE

FileMissing(f) == f.file = ""

----------------------------------------------------------------------------
(* Config.ApplyDefaults *)

\* metrics Config.ApplyDefaults: rejects a metrics section it finds invalid.
PrometheusApplyDefaults(p) ==
    [err |-> IF p.Configs = "invalid"
             THEN <<"invalid metrics config">> ELSE NilErr,
     p |-> p]

\* integrations ManagerConfig.ApplyDefaults(&c.Prometheus).
IntegrationsApplyDefaults(m, p) ==
    [err |-> IF m.Integrations = "invalid"
             THEN <<"invalid integrations config">> ELSE NilErr,
     m |-> m]

AliasConflict(c) == ~c.Logs.nil /\ ~c.Loki.nil

MigrateLoki_KeepLegacy(c) ==
    IF c.Logs.nil /\ ~c.Loki.nil
    THEN [c EXCEPT !.Logs = c.Loki, !.UsedDeprecatedLoki = TRUE]
    ELSE c

MigrateLoki_NoCopy(c) ==
    IF c.Logs.nil /\ ~c.Loki.nil
    THEN [c EXCEPT !.Loki = NilLogs, !.UsedDeprecatedLoki = TRUE]
    ELSE c

MigrateLoki(c) ==
    IF c.Logs.nil /\ ~c.Loki.nil
    THEN [c EXCEPT !.Logs = c.Loki, !.Loki = NilLogs,
                   !.UsedDeprecatedLoki = TRUE]
    ELSE c

Endpoints_KeepSet(c) ==
    [c EXCEPT !.Prometheus.ServiceConfig.Lifecycler.ListenPort =
                  IF @ = 0 THEN c.Server.GRPCListenPort ELSE @,
              !.Integrations.ListenPort =
                  IF @ = 0 THEN c.Server.HTTPListenPort ELSE @,
              !.Integrations.ListenHost =
                  IF @ = "" THEN c.Server.HTTPListenAddress ELSE @]

\* The server's endpoints are copied into the subsystems that use them.
Endpoints(c) ==
    [c EXCEPT !.Prometheus.ServiceConfig.Lifecycler.ListenPort =
                  c.Server.GRPCListenPort,
              !.Integrations.ListenPort = c.Server.HTTPListenPort,
              !.Integrations.ListenHost = c.Server.HTTPListenAddress]

Cascade_Always(c) ==
    [Endpoints(c) EXCEPT !.Integrations.PrometheusRemoteWrite =
                             c.Prometheus.Global.RemoteWrite]

\* The endpoints, then the metrics' remote-write destinations where the
\* integrations have none of their own.
Cascade(c) ==
    [Endpoints(c) EXCEPT
        !.Integrations.PrometheusRemoteWrite =
            IF Len(@) = 0 THEN c.Prometheus.Global.RemoteWrite ELSE @]

HasLogs(logs, name) ==
    /\ ~logs.nil
    /\ \E k \in 1..Len(logs.Configs) : logs.Configs[k] = name

\* An instance whose automatic logging writes to a logs instance that the
\* logs section does not hold.
Dangling(inst, logs) ==
    inst.Backend = "logs_instance" /\ ~HasLogs(logs, inst.LogsName)

NotFound(inst) ==
    <<"failed to validate automatic_logging for tempo config ", inst.Name,
      ": ", "specified logs config ", inst.LogsName,
      " not found in agent config">>

\* tempo Config.Validate(logs): the instances are checked in order and the
\* first dangling reference is the error.
RECURSIVE TempoValidateFrom(_, _, _)
TempoValidateFrom(configs, logs, i) ==
    IF i > Len(configs) THEN NilErr
    ELSE IF Dangling(configs[i], logs) THEN NotFound(configs[i])
    ELSE TempoValidateFrom(configs, logs, i + 1)

TempoValidate(t, logs) == TempoValidateFrom(t.Configs, logs, 1)

----------------------------------------------------------------------------
(* load *)

\* var c Config: the tree before anything is stored in it.
ZeroConfig ==
    [DefaultConfig EXCEPT !.Prometheus.Global.ScrapeInterval = "0s",
                          !.Prometheus.Global.ScrapeTimeout = "0s"]

NoDoc == [read |-> FALSE, d |-> BaseDoc]
NoRet == [kind |-> "none", nil |-> TRUE, tree |-> ZeroConfig,
          err |-> NilErr, code |-> 0]
NotValidated == [called |-> FALSE, logs |-> NilLogs]

\* MetricsHandler has not been called.
NoHandler == [targets |-> <<>>, next |-> 1, warned |-> <<>>, called |-> <<>>,
              result |-> "none"]

\* No call of load has ended yet.
NoCall == [ran |-> FALSE, doc |-> NoDoc, ret |-> NoRet]

\* The file a call finds is the file the call before it found.
Files ==
    IF first.ran THEN {first.doc}
    ELSE {[read |-> TRUE, d |-> d] : d \in Docs}
         \cup {[read |-> FALSE, d |-> BaseDoc]}

ReturnErr_WithTree(e) ==
    [kind |-> "return", nil |-> FALSE, tree |-> cfg, err |-> e, code |-> 0]

\* return nil, err
ReturnErr(e) ==
    [kind |-> "return", nil |-> TRUE, tree |-> ZeroConfig,
     err |-> e, code |-> 0]

ReturnTree(c) ==
    [kind |-> "return", nil |-> FALSE, tree |-> c, err |-> NilErr, code |-> 0]

Exit(code) ==
    [kind |-> "exit", nil |-> TRUE, tree |-> ZeroConfig,
     err |-> NilErr, code |-> code]

Init ==
    /\ pc = "Init"
    /\ args \in ArgSets
    /\ env \in Envs
    /\ fv = [file |-> "", printVersion |-> FALSE, configExpandEnv |-> FALSE]
    /\ cfg = ZeroConfig
    /\ doc = NoDoc
    /\ buf = NoBuf
    /\ vlogs = NotValidated
    /\ pre = ZeroConfig
    /\ global = DefaultConfig
    /\ first = NoCall
    /\ mh = NoHandler
    /\ entry = ZeroConfig
    /\ ret = NoRet
    /\ trace = <<>>

\* cfg = DefaultConfig
Seed ==
    /\ pc = "Init"
    /\ cfg' = global
    /\ pc' = "DefaultsSeeded"
    /\ trace' = Append(trace, "seed")
    /\ UNCHANGED <<args, env, fv, doc, buf, vlogs, entry, ret, pre, global,
                   first, mh>>

\* fs.StringVar / fs.BoolVar of the three locals, cfg.RegisterFlags(fs)
Register ==
    /\ pc = "DefaultsSeeded"
    /\ fv' = [file |-> "", printVersion |-> FALSE, configExpandEnv |-> FALSE]
    /\ cfg' = RegisterFlags(cfg)
    /\ pc' = "FlagsRegistered"
    /\ trace' = Append(trace, "register")
    /\ UNCHANGED <<args, env, doc, buf, vlogs, entry, ret, pre, global,
                   first, mh>>

\* The first fs.Parse(args) and the version request.
FirstParse ==
    /\ pc = "FlagsRegistered"
    /\ LET r == Parse(args, fv, cfg) IN
       /\ fv' = r.fv
       /\ cfg' = r.c
       /\ trace' = Append(trace, "parse")
       /\ IF Failed(r.err)
          THEN /\ pc' = "Returned"
               /\ ret' = ReturnErr(Wrap(<<"error parsing flags: ">>, r.err))
          ELSE IF VersionRequested(r.fv)
          THEN /\ pc' = "Exited"
               /\ ret' = Exit(0)
          ELSE /\ pc' = "FlagsParsed"
               /\ ret' = ret
    /\ UNCHANGED <<args, env, doc, buf, vlogs, entry, pre, global, first, mh>>

\* The required document path.
FileRequired ==
    /\ pc = "FlagsParsed"
    /\ FileMissing(fv)
    /\ pc' = "Returned"
    /\ ret' = ReturnErr(<<"-config.file flag required">>)
    /\ UNCHANGED <<args, env, fv, cfg, doc, buf, vlogs, entry, trace, pre,
                   global, first, mh>>

\* loader(file, configExpandEnv, &cfg), the loader being LoadFile.
LoadDocument ==
    /\ pc = "FlagsParsed"
    /\ ~FileMissing(fv)
    /\ \E f \in Files :
         LET r == LoadFile(f.read, f.d, fv.configExpandEnv, cfg) IN
         /\ doc' = f
         /\ buf' = r.buf
         /\ cfg' = r.c
         /\ trace' = Append(trace, "load")
         /\ IF Failed(r.err)
            THEN /\ pc' = "Returned"
                 /\ ret' = ReturnErr(Wrap(<<"error loading config file ",
                                            fv.file, ": ">>, r.err))
            ELSE /\ pc' = "DocumentLoaded"
                 /\ ret' = ret
    /\ pre' = cfg
    /\ global' = DefaultConfigAfter(global, cfg')
    /\ UNCHANGED <<args, env, fv, vlogs, entry, first, mh>>

\* The second fs.Parse(args).
SecondParse ==
    /\ pc = "DocumentLoaded"
    /\ LET r == Reparse(args, fv, cfg) IN
       /\ fv' = r.fv
       /\ cfg' = r.c
       /\ entry' = r.c
       /\ trace' = Append(trace, "parse")
       /\ IF Failed(r.err)
          THEN /\ pc' = "Returned"
               /\ ret' = ReturnErr(Wrap(<<"error parsing flags: ">>, r.err))
          ELSE /\ pc' = "FlagsReapplied"
               /\ ret' = ret
    /\ UNCHANGED <<args, env, doc, buf, vlogs, pre, global, first, mh>>

InConfigFile_NoPrefix(e) == e

\* fmt.Errorf("error in config file: %w", err)
InConfigFile(e) == Wrap(<<"error in config file: ">>, e)

\* ApplyDefaults: c.Prometheus.ApplyDefaults()
ApplyMetricsDefaults ==
    /\ pc = "FlagsReapplied"
    /\ LET r == PrometheusApplyDefaults(cfg.Prometheus) IN
       /\ cfg' = [cfg EXCEPT !.Prometheus = r.p]
       /\ trace' = Append(trace, "metrics.ApplyDefaults")
       /\ IF Failed(r.err)
          THEN /\ pc' = "Returned"
               /\ ret' = ReturnErr(InConfigFile(r.err))
          ELSE /\ pc' = "MetricsDefaulted"
               /\ ret' = ret
    /\ UNCHANGED <<args, env, fv, doc, buf, vlogs, entry, pre, global, first,
                   mh>>

\* ApplyDefaults: the loki / logs alias
ApplyAlias ==
    /\ pc = "MetricsDefaulted"
    /\ trace' = Append(trace, "alias")
    /\ IF AliasConflict(cfg)
       THEN /\ pc' = "Returned"
            /\ cfg' = cfg
            /\ ret' = ReturnErr(InConfigFile(
                         <<"at most one of loki and logs should be specified">>))
       ELSE /\ pc' = "Migrated"
            /\ cfg' = MigrateLoki(cfg)
            /\ ret' = ret
    /\ UNCHANGED <<args, env, fv, doc, buf, vlogs, entry, pre, global, first,
                   mh>>

\* ApplyDefaults: c.Integrations.ApplyDefaults(&c.Prometheus)
ApplyIntegrationsDefaults ==
    /\ pc = "Migrated"
    /\ LET r == IntegrationsApplyDefaults(cfg.Integrations, cfg.Prometheus) IN
       /\ cfg' = [cfg EXCEPT !.Integrations = r.m]
       /\ trace' = Append(trace, "integrations.ApplyDefaults")
       /\ IF Failed(r.err)
          THEN /\ pc' = "Returned"
               /\ ret' = ReturnErr(InConfigFile(r.err))
          ELSE /\ pc' = "IntegrationsDefaulted"
               /\ ret' = ret
    /\ UNCHANGED <<args, env, fv, doc, buf, vlogs, entry, pre, global, first,
                   mh>>

\* ApplyDefaults: the values copied between the sections
ApplyCascade ==
    /\ pc = "IntegrationsDefaulted"
    /\ cfg' = Cascade(cfg)
    /\ pc' = "CascadeApplied"
    /\ trace' = Append(trace, "cascade")
    /\ UNCHANGED <<args, env, fv, doc, buf, vlogs, entry, ret, pre, global,
                   first, mh>>

\* ApplyDefaults: c.Tempo.Validate(c.Logs), and load's return of the tree
ApplyValidate ==
    /\ pc = "CascadeApplied"
    /\ vlogs' = [called |-> TRUE, logs |-> cfg.Logs]
    /\ trace' = Append(trace, "validate")
    /\ LET e == TempoValidate(cfg.Tempo, cfg.Logs) IN
       /\ pc' = "Returned"
       /\ ret' = IF Failed(e) THEN ReturnErr(InConfigFile(e))
                 ELSE ReturnTree(cfg)
    /\ UNCHANGED <<args, env, fv, cfg, doc, buf, entry, pre, global, first,
                   mh>>

Next ==
    \/ Seed
    \/ Register
    \/ FirstParse
    \/ FileRequired
    \/ LoadDocument
    \/ SecondParse
    \/ ApplyMetricsDefaults
    \/ ApplyAlias
    \/ ApplyIntegrationsDefaults
    \/ ApplyCascade
    \/ ApplyValidate

Spec == Init /\ [][Next]_vars

\* load is called again, with the arguments, the environment and the file
\* of the call that returned: its flag set, its locals and its tree are new.
Again ==
    /\ pc = "Returned"
    /\ ~first.ran
    /\ first' = [ran |-> TRUE, doc |-> doc, ret |-> ret]
    /\ pc' = "Init"
    /\ fv' = [file |-> "", printVersion |-> FALSE, configExpandEnv |-> FALSE]
    /\ cfg' = ZeroConfig
    /\ doc' = NoDoc
    /\ buf' = NoBuf
    /\ vlogs' = NotValidated
    /\ pre' = ZeroConfig
    /\ entry' = ZeroConfig
    /\ ret' = NoRet
    /\ trace' = <<>>
    /\ UNCHANGED <<args, env, global, mh>>

\* Config.ApplyDefaults called on a tree of the caller's: one whose endpoint
\* fields were set before, and one that holds only a legacy section.
SetTree ==
    [DefaultConfig EXCEPT
        !.Server.HTTPListenPort = 8080,
        !.Server.HTTPListenAddress = "localhost",
        !.Server.GRPCListenPort = 9096,
        !.Prometheus.ServiceConfig.Lifecycler.ListenPort = 7946,
        !.Integrations.ListenPort = 7070,
        !.Integrations.ListenHost = "0.0.0.0"]
LegacyTree == [ZeroConfig EXCEPT !.Loki = LogsOf(<<"foo">>)]
ApplyTrees == {SetTree, LegacyTree}

InitApply ==
    /\ pc = "FlagsReapplied"
    /\ args = [bad |-> FALSE, version |-> FALSE, file |-> Unset(""),
               expandEnv |-> FALSE, walDir |-> Unset(<<>>),
               httpPort |-> Unset(0)]
    /\ env \in Envs
    /\ fv = [file |-> "", printVersion |-> FALSE, configExpandEnv |-> FALSE]
    /\ cfg \in ApplyTrees
    /\ doc = NoDoc
    /\ buf = NoBuf
    /\ vlogs = NotValidated
    /\ pre = ZeroConfig
    /\ global = DefaultConfig
    /\ first = NoCall
    /\ mh = NoHandler
    /\ entry = cfg
    /\ ret = NoRet
    /\ trace = <<>>

\* load, and ApplyDefaults on its own.
SpecResolve == (Init \/ InitApply) /\ [][Next]_vars

NextTwice == Next \/ Again

\* The calls that are repeated: every name of the environment is set and
\* the port is not given by flag.
InitTwice ==
    /\ Init
    /\ env = [n \in Names |-> <<"v">> \o n]
    /\ args.httpPort = Unset(0)

SpecTwice == InitTwice /\ [][NextTwice]_vars

----------------------------------------------------------------------------
(* Properties *)

Returned == pc = "Returned" /\ ret.kind = "return"
Succeeded == Returned /\ ~ret.nil

\* The stages of a load that runs to its end.
FullTrace ==
    <<"seed", "register", "parse", "load", "parse", "metrics.ApplyDefaults",
      "alias", "integrations.ApplyDefaults", "cascade", "validate">>

\* What a document value is once the placeholders are substituted.
AllDigits(name) == \A k \in 1..Len(name) : IsDigit(name[k])

Substituted(t) ==
    IF t.kind = "lit" THEN t.s
    ELSE IF AllDigits(t.s) THEN <<"$", "{">> \o t.s \o <<"}">>
    ELSE env[t.s]

SubstitutedAll(ts) == Concat([i \in 1..Len(ts) |-> Substituted(ts[i])])

\* The logs section a document resolves to: the current one, or the legacy
\* one when only that is populated.
ResolvedLogs(d) == IF d.logs.nil THEN d.loki ELSE d.logs

Names_(logs) == IF logs.nil THEN {} ELSE {logs.Configs[k] : k \in 1..Len(logs.Configs)}

\* C1: in the tree a successful load returns, a field that a flag and the
\* document can both set holds the flag's value when the flag was supplied,
\* otherwise the document's value when the document sets it, otherwise the
\* default.
C1_Precedence ==
    Succeeded =>
        /\ ret.tree.Prometheus.WALDir =
              IF args.walDir.set THEN args.walDir.val
              ELSE IF doc.d.wal_directory.set THEN buf.text
              ELSE FlagDefaults.WALDir
        /\ ret.tree.Server.HTTPListenPort =
              IF args.httpPort.set THEN args.httpPort.val
              ELSE IF doc.d.http_listen_port.set THEN doc.d.http_listen_port.val
              ELSE FlagDefaults.HTTPListenPort

\* C1 witness: a load succeeded where the document and a flag both set the
\* WAL directory, to different values, and only the document sets the port.
C1_Witness ==
    /\ Succeeded
    /\ args.walDir.set /\ doc.d.wal_directory.set
    /\ buf.text # args.walDir.val
    /\ ret.tree.Prometheus.WALDir = args.walDir.val
    /\ ~args.httpPort.set /\ doc.d.http_listen_port.set
    /\ ret.tree.Server.HTTPListenPort = doc.d.http_listen_port.val

\* C2: load returns either a tree and no error, and then every stage ran and
\* succeeded and the tree is the resolved one, or no tree and an error.
C2_TreeOrError ==
    Returned =>
        \/ /\ ~ret.nil /\ ret.err = NilErr
           /\ trace = FullTrace
           /\ ~args.bad /\ doc.read /\ buf.decoded /\ ~doc.d.malformed
           /\ ret.tree = cfg
           /\ ret.tree.Prometheus.Configs = "valid"
           /\ ret.tree.Integrations.Integrations = "valid"
           /\ entry.Logs.nil \/ entry.Loki.nil
           /\ \A i \in 1..Len(ret.tree.Tempo.Configs) :
                 ret.tree.Tempo.Configs[i].Backend = "logs_instance"
                 => ret.tree.Tempo.Configs[i].LogsName \in Names_(ret.tree.Logs)
        \/ /\ ret.nil /\ ret.err # NilErr

\* C2 witness: load returned an error from the last stage, and no tree.
C2_Witness ==
    /\ Returned /\ ret.nil /\ ret.err # NilErr
    /\ trace = FullTrace

\* The document was read and decoded without error.
Decoded ==
    /\ doc.read /\ buf.decoded /\ ~doc.d.malformed
    /\ \A k \in 1..Len(doc.d.keys) :
          /\ doc.d.keys[k] \in KnownKeys
          /\ \A j \in 1..(k - 1) : doc.d.keys[j] # doc.d.keys[k]

LogsBacked(inst) == inst.Backend = "logs_instance"

\* The text load fails with when inst names a logs entity that is missing.
NotFoundText(inst) ==
    <<"error in config file: ",
      "failed to validate automatic_logging for tempo config ", inst.Name,
      ": ", "specified logs config ", inst.LogsName,
      " not found in agent config">>

\* The instances of document d that name a logs entity d does not resolve.
Missing(d) ==
    {i \in 1..Len(d.tempo) :
        LogsBacked(d.tempo[i])
        /\ d.tempo[i].LogsName \notin Names_(ResolvedLogs(d))}

First(S) == CHOOSE i \in S : \A j \in S : i <= j

LegacyRef(d, i) ==
    /\ d.logs.nil /\ ~d.loki.nil
    /\ i \in 1..Len(d.tempo)
    /\ LogsBacked(d.tempo[i])
    /\ d.tempo[i].LogsName \in Names_(d.loki)

C5_AliasMigration ==
    Succeeded =>
        /\ ret.tree.Loki = NilLogs
        /\ (entry.Logs.nil /\ ~entry.Loki.nil) =>
              /\ ret.tree.Logs = entry.Loki
              /\ ret.tree.UsedDeprecatedLoki
        /\ entry.Loki.nil =>
              /\ ret.tree.Logs = entry.Logs
              /\ ret.tree.UsedDeprecatedLoki = entry.UsedDeprecatedLoki
              /\ ~ret.tree.UsedDeprecatedLoki

\* C5 witness: the legacy section with its entry foo was migrated.
C5_Witness ==
    /\ Succeeded
    /\ entry.Logs.nil /\ entry.Loki = LogsOf(<<"foo">>)
    /\ ret.tree.Logs.Configs[1] = "foo"
    /\ ret.tree.UsedDeprecatedLoki

\* C6 as stated: when the document populates both the legacy and the current
\* section, load returns no tree but the alias-conflict error, and nothing was
\* migrated.
C6_Original ==
    (Returned /\ Decoded /\ ~doc.d.logs.nil /\ ~doc.d.loki.nil) =>
        /\ ret.nil
        /\ ret.err = <<"error in config file: ",
                       "at most one of loki and logs should be specified">>
        /\ cfg.Logs = doc.d.logs /\ cfg.Loki = doc.d.loki
        /\ ~cfg.UsedDeprecatedLoki

Count(t, x) == Cardinality({k \in 1..Len(t) : t[k] = x})

ApplyDefaultsStages ==
    {"metrics.ApplyDefaults", "alias", "integrations.ApplyDefaults",
     "cascade", "validate"}

RanApplyDefaults == \E k \in 1..Len(trace) : trace[k] \in ApplyDefaultsStages

\* The arguments cannot be parsed, or name no document.
BadInvocation == args.bad \/ ~args.file.set \/ args.file.val = ""

\* C7: when the first flag parse fails or -config.file is absent or empty,
\* the loader is never called, the flags are not parsed again, ApplyDefaults
\* does not run, and what load returns is the error of the failed parse,
\* respectively '-config.file flag required'.
C7_BadInvocation ==
    BadInvocation =>
        /\ Count(trace, "load") = 0 /\ ~doc.read /\ ~buf.decoded
        /\ Count(trace, "parse") <= 1
        /\ ~RanApplyDefaults
        /\ Returned =>
              /\ ret.nil
              /\ IF args.bad
                 THEN Len(ret.err) > 1 /\ ret.err[1] = "error parsing flags: "
                 ELSE ret.err = <<"-config.file flag required">>

\* C7 witness: the arguments parse but name no document, and load returned.
C7_Witness ==
    /\ Returned
    /\ ~args.bad /\ args.file.set /\ args.file.val = ""
    /\ ret.err = <<"-config.file flag required">>

\* C8: with substitution enabled the decoded text is the raw text with every
\* ${name} replaced by the environment's value of name, a name of digits
\* only keeping its token; with substitution disabled the decoded text is
\* the raw text; the decoded value is written to the tree as it is.  getenv
\* returns ${name} for exactly the names of digits only and the
\* environment's value for the others.
C8_Substitution ==
    /\ buf.decoded =>
          /\ doc.d.wal_directory.set =>
                buf.text = IF fv.configExpandEnv
                           THEN SubstitutedAll(doc.d.wal_directory.val)
                           ELSE RenderAll(doc.d.wal_directory.val)
          /\ (pc = "DocumentLoaded" /\ doc.d.wal_directory.set) =>
                cfg.Prometheus.WALDir = buf.text
    /\ \A n \in Names \cup {<<>>} :
          getenv(n) = IF AllDigits(n) THEN <<"$", "{">> \o n \o <<"}">>
                      ELSE env[n]

\* C8 witness: a value made of ${1} and ${A} was decoded with substitution
\* enabled in an environment that sets A.
C8_Witness ==
    /\ buf.decoded /\ fv.configExpandEnv
    /\ doc.d.wal_directory = Given(<<Var(<<"1">>), Var(<<"A">>)>>)
    /\ env[<<"A">>] = <<"v", "A">>
    /\ buf.text = <<"$", "{", "1", "}", "v", "A">>

\* C9: once the cascade of ApplyDefaults has run, the integrations
\* remote-write list is the one ApplyDefaults was entered with if that was
\* not empty, and the metrics section's global list if it was empty; before
\* the cascade it is the one ApplyDefaults was entered with.
C9_RemoteWriteCascade ==
    RanApplyDefaults =>
        IF Count(trace, "cascade") = 0
        THEN cfg.Integrations.PrometheusRemoteWrite =
                 entry.Integrations.PrometheusRemoteWrite
        ELSE cfg.Integrations.PrometheusRemoteWrite =
                 IF Len(entry.Integrations.PrometheusRemoteWrite) # 0
                 THEN entry.Integrations.PrometheusRemoteWrite
                 ELSE entry.Prometheus.Global.RemoteWrite

\* C9 witness: ApplyDefaults succeeded on a tree with a remote-write list of
\* its own for the integrations and another global one.
C9_Witness ==
    /\ Succeeded
    /\ entry.Integrations.PrometheusRemoteWrite = <<"own">>
    /\ entry.Prometheus.Global.RemoteWrite = <<"global">>
    /\ ret.tree.Integrations.PrometheusRemoteWrite = <<"own">>

\* The stage of load an entry of the trace belongs to.
StageOf(x) == IF x \in ApplyDefaultsStages THEN "ApplyDefaults" ELSE x

LoadOrder ==
    <<"seed", "register", "parse", "load", "parse", "ApplyDefaults",
      "ApplyDefaults", "ApplyDefaults", "ApplyDefaults", "ApplyDefaults">>

\* The stage an error of load comes from.
FailedStage ==
    IF ret.err[1] = "error parsing flags: " THEN "parse"
    ELSE IF ret.err[1] = "-config.file flag required" THEN "parse"
    ELSE IF ret.err[1] = "error loading config file " THEN "load"
    ELSE IF ret.err[1] = "error in config file: " THEN "ApplyDefaults"
    ELSE "none"

\* C10: the stages run in the order seed, register, parse, load, parse,
\* ApplyDefaults, none of them twice but the parse; a stage runs only if the
\* stages before it succeeded; an error comes from the last stage that ran,
\* an error of loading the document is returned before ApplyDefaults runs;
\* and once load has ended nothing changes any more.
C10_StageOrder ==
    /\ [](/\ Len(trace) <= Len(LoadOrder)
          /\ \A k \in 1..Len(trace) : StageOf(trace[k]) = LoadOrder[k]
          /\ \A x \in ApplyDefaultsStages : Count(trace, x) <= 1
          /\ Len(trace) >= 4 =>
                (~args.bad /\ ~args.version /\ args.file.set /\ args.file.val # "")
          /\ Len(trace) >= 5 => Decoded
          /\ Len(trace) >= 7 => entry.Prometheus.Configs = "valid"
          /\ Len(trace) >= 8 => (entry.Logs.nil \/ entry.Loki.nil)
          /\ Len(trace) >= 9 => entry.Integrations.Integrations = "valid"
          /\ (Returned /\ ret.err # NilErr) =>
                /\ StageOf(trace[Len(trace)]) = FailedStage
                /\ FailedStage = "load" => ~RanApplyDefaults
                /\ FailedStage = "parse" => Len(trace) = 3
          /\ Succeeded => Len(trace) = Len(LoadOrder))
    /\ [][(pc \in {"Returned", "Exited"}) => (vars' = vars)]_vars

\* C10 witness: a document that could not be decoded ended the load at the
\* load stage.
C10_Witness ==
    /\ Returned /\ doc.read /\ doc.d.malformed
    /\ ret.err[1] = "error loading config file "
    /\ trace = <<"seed", "register", "parse", "load">>

----------------------------------------------------------------------------
(* LoadBytes called on a tree of the caller's *)

NoArgs ==
    [bad |-> FALSE, version |-> FALSE, file |-> Unset(""),
     expandEnv |-> FALSE, walDir |-> Unset(<<>>), httpPort |-> Unset(0)]

\* The trees a caller hands to LoadBytes: the zero-valued one, the one load
\* hands over, and one whose fields were set before.
UsedTree ==
    [RegisterFlags(DefaultConfig) EXCEPT
        !.Prometheus.WALDir = <<"f">>,
        !.Prometheus.Global.ScrapeInterval = "5m",
        !.Integrations.PrometheusRemoteWrite = <<"i">>,
        !.Logs = LogsOf(<<"foo">>)]
CallerTrees == {ZeroConfig, RegisterFlags(DefaultConfig), UsedTree}

InitDecode ==
    /\ pc = "Decode"
    /\ args = NoArgs
    /\ env \in Envs
    /\ fv = [file |-> "", printVersion |-> FALSE, configExpandEnv |-> FALSE]
    /\ cfg \in CallerTrees
    /\ doc = NoDoc
    /\ buf = NoBuf
    /\ vlogs = NotValidated
    /\ pre = ZeroConfig
    /\ global = DefaultConfig
    /\ first = NoCall
    /\ mh = NoHandler
    /\ entry = ZeroConfig
    /\ ret = NoRet
    /\ trace = <<>>

\* err := LoadBytes(buf, expandEnvVars, &c)
DecodeBytes ==
    /\ pc = "Decode"
    /\ \E d \in Docs, expandEnvVars \in BOOLEAN :
         LET r == LoadBytes(d, expandEnvVars, cfg) IN
         /\ doc' = [read |-> TRUE, d |-> d]
         /\ buf' = r.buf
         /\ cfg' = r.c
         /\ ret' = [ReturnErr(r.err) EXCEPT !.nil = Failed(r.err)]
    /\ pre' = cfg
    /\ global' = DefaultConfigAfter(global, cfg')
    /\ pc' = "Decoded"
    /\ trace' = Append(trace, "load")
    /\ UNCHANGED <<args, env, fv, vlogs, entry, first, mh>>

NextDecode == DecodeBytes

SpecDecode == InitDecode /\ [][NextDecode]_vars

DecodeDone == pc = "Decoded"
DecodeFailed == DecodeDone /\ ret.err # NilErr
DecodeSucceeded == DecodeDone /\ ret.err = NilErr

\* C11: when LoadBytes returns an error, the tree handed to it is as it was
\* before the call.
C11_Original == DecodeFailed => cfg = pre

\* The fields of the metrics and integrations sections that the document
\* does not write hold the defaults the decode seeds.
Seeded == DefaultConfigFromFlags(DefaultConfig)
AbsentAreSeeded(d, c) ==
    /\ ~d.wal_directory.set => c.Prometheus.WALDir = Seeded.Prometheus.WALDir
    /\ ~d.http_listen_port.set =>
          c.Server.HTTPListenPort = Seeded.Server.HTTPListenPort
    /\ c.Prometheus.Global.ScrapeInterval = Seeded.Prometheus.Global.ScrapeInterval
    /\ (\A k \in 1..Len(d.keys) : d.keys[k].name # "scrape_timeout") =>
          c.Prometheus.Global.ScrapeTimeout = Seeded.Prometheus.Global.ScrapeTimeout
    /\ d.global_remote_write = <<>> => c.Prometheus.Global.RemoteWrite = <<>>
    /\ d.integrations_remote_write = <<>> =>
          c.Integrations.PrometheusRemoteWrite = <<>>
    /\ d.logs.nil => c.Logs.nil
    /\ d.loki.nil => c.Loki.nil
    /\ d.tempo = <<>> => c.Tempo.Configs = <<>>

\* The documents that say nothing: the one of zero bytes and the mapping
\* without keys.
SaysNothing(d) == d \in {EmptyDoc, BaseDoc}

\* C12 as stated: a document that says nothing, decoded into any tree,
\* leaves the metrics and integrations sections at their defaults, and after
\* every successful decode the fields the document does not write hold their
\* defaults.
C12_Original ==
    DecodeSucceeded =>
        /\ AbsentAreSeeded(doc.d, cfg)
        /\ SaysNothing(doc.d) =>
              /\ cfg.Prometheus = DefaultConfig.Prometheus
              /\ cfg.Integrations = DefaultConfig.Integrations

\* C12: decoding the mapping without keys into any tree succeeds and leaves
\* the metrics and integrations sections at their defaults; after every
\* successful decode of a document that is not of zero bytes the fields it
\* does not write hold their defaults, whatever the tree held before; a
\* document of zero bytes decodes successfully and leaves the tree as it
\* was.
C12_EmptyMapping ==
    /\ (DecodeDone /\ doc.d = BaseDoc) =>
          /\ DecodeSucceeded
          /\ cfg.Prometheus = DefaultConfig.Prometheus
          /\ cfg.Integrations = DefaultConfig.Integrations
    /\ (DecodeSucceeded /\ ~doc.d.empty) => AbsentAreSeeded(doc.d, cfg)
    /\ (DecodeDone /\ doc.d.empty /\ buf.decoded) =>
          (DecodeSucceeded /\ cfg = pre)

\* C12 witness: the mapping without keys was decoded into a tree whose
\* fields had been set before, and the tree holds the defaults.
C12_Witness ==
    /\ DecodeSucceeded /\ doc.d = BaseDoc /\ pre = UsedTree
    /\ cfg.Prometheus = DefaultConfig.Prometheus

\* A key written twice in one mapping, and a key its mapping has no field
\* for.
HasDuplicate(keys) ==
    \E j, k \in 1..Len(keys) : j < k /\ keys[j] = keys[k]
HasUnknown(keys) ==
    \E k \in 1..Len(keys) :
        ~(keys[k].level = "global"
          /\ keys[k].name \in {"scrape_timeout", "external_labels"})

\* C13: a document that writes a key twice in one mapping, or a key its
\* mapping has no field for, is never loaded: LoadBytes fails and load
\* returns the loader's error and no tree.
C13_StrictDecode ==
    (doc.read /\ (HasDuplicate(doc.d.keys) \/ HasUnknown(doc.d.keys))) =>
        /\ Returned /\ ret.nil
        /\ ret.err[1] = "error loading config file "
        /\ trace[Len(trace)] = "load"

\* C13 witness: the substituted text reached the decoder and a repeated
\* known key made load fail.
C13_Witness ==
    /\ Returned /\ ret.nil /\ buf.decoded /\ ~doc.d.malformed
    /\ HasDuplicate(doc.d.keys) /\ ~HasUnknown(doc.d.keys)

\* C14: a parse that sets the version flag ends load by exiting with status
\* 0, with no tree and no error returned; load exits in no other way; and
\* with the version request among the arguments load never reaches the check
\* of the document path and never reads a document, so the exit also happens
\* when no document path was given.
C14_VersionExit ==
    /\ fv.printVersion =>
          /\ pc = "Exited"
          /\ ret.kind = "exit" /\ ret.code = 0 /\ ret.nil /\ ret.err = NilErr
          /\ trace = <<"seed", "register", "parse">>
    /\ pc = "Exited" => (args.version /\ fv.printVersion)
    /\ args.version =>
          /\ ~doc.read /\ Count(trace, "load") = 0
          /\ ret.err # <<"-config.file flag required">>

\* C14 witness: the version was requested without a document path and load
\* exited with status 0.
C14_Witness ==
    /\ pc = "Exited" /\ ret.kind = "exit" /\ ret.code = 0
    /\ args.version /\ ~args.file.set

\* The stages of ApplyDefaults that are a subsystem's own ApplyDefaults.
SubsystemStages == {"metrics.ApplyDefaults", "integrations.ApplyDefaults"}

\* C15: inside ApplyDefaults the legacy alias is resolved before any
\* subsystem's ApplyDefaults runs, and the integrations' ApplyDefaults runs
\* after the metrics'.
C15_Original ==
    \A k \in 1..Len(trace) :
        /\ trace[k] \in SubsystemStages =>
              \E j \in 1..(k - 1) : trace[j] = "alias"
        /\ trace[k] = "integrations.ApplyDefaults" =>
              \E j \in 1..(k - 1) : trace[j] = "metrics.ApplyDefaults"

ResolvedServer ==
    [HTTPListenPort |->
         IF args.httpPort.set THEN args.httpPort.val
         ELSE IF doc.d.http_listen_port.set THEN doc.d.http_listen_port.val
         ELSE FlagDefaults.HTTPListenPort,
     HTTPListenAddress |->
         IF doc.d.http_listen_address.set THEN doc.d.http_listen_address.val
         ELSE FlagDefaults.HTTPListenAddress,
     GRPCListenPort |->
         IF doc.d.grpc_listen_port.set THEN doc.d.grpc_listen_port.val
         ELSE FlagDefaults.GRPCListenPort]

\* C17: in every tree that load or ApplyDefaults returns, the metrics
\* lifecycler's listen port is the server's gRPC port and the integrations'
\* listen port and host are the server's HTTP port and address, whatever
\* these fields held before; the server's values are those ApplyDefaults was
\* entered with, in a load those after the second parse, where a port given
\* by flag wins over the document's.
C17_EndpointCascade ==
    Succeeded =>
        LET t == ret.tree IN
        /\ t.Prometheus.ServiceConfig.Lifecycler.ListenPort =
              t.Server.GRPCListenPort
        /\ t.Integrations.ListenPort = t.Server.HTTPListenPort
        /\ t.Integrations.ListenHost = t.Server.HTTPListenAddress
        /\ t.Server = entry.Server
        /\ trace = FullTrace =>
              /\ t.Server.HTTPListenPort = ResolvedServer.HTTPListenPort
              /\ t.Server.HTTPListenAddress = ResolvedServer.HTTPListenAddress
              /\ t.Server.GRPCListenPort = ResolvedServer.GRPCListenPort

\* C17 witness: a load succeeded where the document and a flag set
\* different HTTP ports, and the integrations listen on the flag's.
C17_Witness ==
    /\ Succeeded /\ trace = FullTrace
    /\ args.httpPort.set /\ doc.d.http_listen_port.set
    /\ doc.d.grpc_listen_port.set /\ doc.d.http_listen_address.set
    /\ args.httpPort.val # doc.d.http_listen_port.val
    /\ ret.tree.Integrations.ListenPort = args.httpPort.val
    /\ ret.tree.Prometheus.ServiceConfig.Lifecycler.ListenPort =
          doc.d.grpc_listen_port.val

----------------------------------------------------------------------------
(* The blackbox exporter's MetricsHandler *)

MaxTargets == 3     \* most targets of the exporter's configuration

\* Probers: the probe function of each prober type.
Probers == [t \in {"http", "tcp", "icmp", "dns"} |->
               CASE t = "http" -> "ProbeHTTP"
                 [] t = "tcp" -> "ProbeTCP"
                 [] t = "icmp" -> "ProbeICMP"
                 [] t = "dns" -> "ProbeDNS"]

\* i.c.Modules: the prober type of each configured module; the last one is
\* not a prober type.
Modules == [m \in {"http_2xx", "tcp_connect", "typo"} |->
               CASE m = "http_2xx" -> "http"
                 [] m = "tcp_connect" -> "tcp"
                 [] m = "typo" -> "htpp"]

\* The module a target names; "absent" is not configured.
TargetModules == DOMAIN Modules \cup {"absent"}

\* module := i.c.Modules[target.Module]: the zero module, whose prober type
\* is empty, when the map has no such key.
ProberOf(m) == IF m \in DOMAIN Modules THEN Modules[m] ELSE ""

InitProbe ==
    /\ pc = "Probe"
    /\ args = NoArgs
    /\ env = [n \in Names |-> <<>>]
    /\ fv = [file |-> "", printVersion |-> FALSE, configExpandEnv |-> FALSE]
    /\ cfg = ZeroConfig
    /\ doc = NoDoc
    /\ buf = NoBuf
    /\ vlogs = NotValidated
    /\ pre = ZeroConfig
    /\ global = DefaultConfig
    /\ first = NoCall
    /\ mh \in {[NoHandler EXCEPT !.targets = ts] :
                  ts \in SeqsUpTo(TargetModules, MaxTargets)}
    /\ entry = ZeroConfig
    /\ ret = NoRet
    /\ trace = <<>>

\* One pass of the loop over i.c.Targets: the lookup, the warning, the call
\* of the probe function.  Calling the nil function of a prober type that
\* Probers does not hold panics.  The registry is new in every pass, so
\* registering the build information in it does not fail.
ProbeTarget ==
    /\ pc = "Probe"
    /\ mh.next <= Len(mh.targets)
    /\ LET t == ProberOf(mh.targets[mh.next])
           ok == t \in DOMAIN Probers
       IN  /\ mh' = [mh EXCEPT
                       !.next = @ + 1,
                       !.warned = IF ok THEN @ ELSE Append(@, t),
                       !.called = Append(@, IF ok THEN Probers[t] ELSE "nil"),
                       !.result = IF ok THEN @ ELSE "panic"]
           /\ pc' = IF ok THEN "Probe" ELSE "Panicked"
    /\ UNCHANGED <<args, env, fv, cfg, doc, buf, vlogs, pre, global, first,
                   entry, ret, trace>>

\* return handler, nil
ReturnHandler ==
    /\ pc = "Probe"
    /\ mh.next > Len(mh.targets)
    /\ mh' = [mh EXCEPT !.result = "handler"]
    /\ pc' = "Handled"
    /\ UNCHANGED <<args, env, fv, cfg, doc, buf, vlogs, pre, global, first,
                   entry, ret, trace>>

NextProbe == ProbeTarget \/ ReturnHandler

SpecProbe == InitProbe /\ [][NextProbe]_vars

\* C18: MetricsHandler calls a probe function only for a target whose
\* module's prober type is a key of Probers; for any other target it only
\* logs the warning and calls nothing, so it does not panic and, once every
\* target was looked at, has returned a handler.
C18_Original ==
    /\ \A k \in 1..Len(mh.called) :
          /\ mh.called[k] # "nil"
          /\ ProberOf(mh.targets[k]) \in {"http", "tcp", "icmp", "dns"}
    /\ mh.result # "panic"
    /\ pc \in {"Probe", "Handled"}

====
